---- MODULE Spec2Model ----
(***************************************************************************)
(* A model of git_test_v2.py: analyze_power_data(), the one procedure of   *)
(* the repository.  The procedure is a straight line of steps over one     *)
(* in-memory table (a pandas DataFrame); every step is one action, in the  *)
(* order of the source.  The environment contributes the wall clock read   *)
(* by datetime.now(), the output of the pseudo-random generator, and the   *)
(* success or failure of each file write.                                  *)
(*                                                                         *)
(* Arithmetic.  The program computes in IEEE doubles; the model computes   *)
(* in fixed point, with the resolution of every quantity named below.      *)
(* Rounding steps of the source (np.round, DataFrame.round, round(), the   *)
(* .2f formats) are modelled as round-half-to-even divisions.  Deviations  *)
(* of the doubles from the real-number result (about 1e-16 relative) are   *)
(* below every resolution of the model and are not represented.            *)
(*   raw normal deviate z        1e-5                                      *)
(*   raw price (before round)    1e-4     base price (after round(2)) 1e-2 *)
(*   modulation factor           1e-4     final price                 1e-4 *)
(*   raw load                    1e-2     load (after round(1))       1e-1 *)
(*   hourly means, summary and report figures                         1e-2 *)
(*   correlation                 1e-3                                      *)
(***************************************************************************)
EXTENDS Integers, Sequences, FiniteSets

(***************************************************************************)
(* Bounds of the model.                                                    *)
(***************************************************************************)
\* The wall clock runs over 0..MaxClock (abstract instants of datetime.now()).
MaxClock == 1
\* The generator's output for a seed is one of the streams 0..MaxStream.
MaxStream == 4
\* An unseeded generator starts from one of the entropy keys 0..MaxEntropy.
MaxEntropy == 1

(***************************************************************************)
(* Program constants.                                                      *)
(***************************************************************************)
Seed == 42
Periods == 168
HoursPerDay == 24
PriceMu == 350
PriceSigma == 80
ClipLo == 100
ClipHi == 800
VolumeLo == 800
VolumeHi == 6000
LoadMu == 12000
LoadSigma == 3000
SpikeSigmas == 2

\* Fixed-point scales (units per 1.0).
ZScale == 100000
RawPriceScale == 10000
CentScale == 100
PriceScale == 10000
FactorScale == 10000
SinScale == 1000
RawLoadScale == 100
LoadScale == 10
CorrScale == 1000

Rows == 1..Periods

(***************************************************************************)
(* Arithmetic helpers.                                                     *)
(***************************************************************************)
Abs(x) == IF x < 0 THEN -x ELSE x

\* x/d rounded to the nearest integer, ties to the even one (np.round, round()).
RoundDiv(x, d) ==
  LET q == x \div d
      r == x % d
  IN  IF 2 * r < d THEN q
      ELSE IF 2 * r > d THEN q + 1
      ELSE IF q % 2 = 0 THEN q ELSE q + 1

RECURSIVE SqrtSearch(_, _, _)
SqrtSearch(x, lo, hi) ==
  IF lo >= hi THEN lo
  ELSE LET mid == (lo + hi + 1) \div 2
       IN  IF mid * mid <= x THEN SqrtSearch(x, mid, hi)
           ELSE SqrtSearch(x, lo, mid - 1)

\* floor(sqrt(x)) for 0 <= x < 2^31.
ISqrt(x) == SqrtSearch(x, 0, 46340)

\* xs[lo] + ... + xs[hi], by halves.
RECURSIVE SumRange(_, _, _)
SumRange(xs, lo, hi) ==
  IF lo > hi THEN 0
  ELSE IF lo = hi THEN xs[lo]
  ELSE LET mid == (lo + hi) \div 2
       IN  SumRange(xs, lo, mid) + SumRange(xs, mid + 1, hi)

\* Series.sum()
Sum(xs) == SumRange(xs, 1, Len(xs))

\* floor((sum of xs) / d) without forming the sum: quotients and remainders apart.
SumDiv(xs, d) ==
  Sum([i \in 1..Len(xs) |-> xs[i] \div d])
    + (Sum([i \in 1..Len(xs) |-> xs[i] % d]) \div d)

(***************************************************************************)
(* The program's state.                                                    *)
(***************************************************************************)
VARIABLES
  pc,            \* the statement analyze_power_data() is about to execute
  now,           \* the wall clock that datetime.now() reads
  stream,        \* which output the generator produces for a given key
  rng,           \* numpy's global generator: [key, pos]
  data,          \* the DataFrame: [columns, col]
  price_stats,   \* the dict of line 37
  price_mean, price_std, price_spikes,
  correlation,   \* [nan, val]
  hourly_stats,  \* hour -> [price, volume, load]
  peak_hour, valley_hour,
  console,       \* what has been printed, in order
  disk,          \* file name -> content
  writes,        \* the files this run has finished writing, in order
  failed,        \* the file whose write raised, or "none"
  archive        \* the three files as the previous completed run left them

vars == <<pc, now, stream, rng, data, price_stats, price_mean, price_std,
          price_spikes, correlation, hourly_stats, peak_hour, valley_hour,
          console, disk, writes, failed, archive>>

(***************************************************************************)
(* The pseudo-random generator.  A stream is a function of the key the     *)
(* generator was seeded with and of the position in the stream; which      *)
(* function the Mersenne Twister computes is not modelled, so it is one of *)
(* the streams 0..MaxStream, fixed for the whole behaviour.                *)
(***************************************************************************)
\* Standard normal deviates (1e-5); 570000 and -320000 drive the price out of
\* the clip range on either side.
ZTable == <<0, 50000, -50000, 100000, -100000, 12345, -67891, 200000,
            -150000, 31416, 570000, -320000, 250000, -27183, 80123, -4321,
            160007, -110011, 7, 45678>>

\* Stream 0 depends on the hour of the day alone: low at 06h, high at 18h.
ZDiurnal(p) ==
  IF p % HoursPerDay = 6 THEN -(ZScale \div 2)
  ELSE IF p % HoursPerDay = 18 THEN ZScale \div 2
  ELSE 0

\* The deviate at position p of stream s under key k.
StandardNormal(s, k, p) ==
  IF s = 0 THEN ZDiurnal(p + Abs(k - Seed))
  ELSE ZTable[((p * (2 * s + 1) + 7 * k + s * (p \div HoursPerDay)) % Len(ZTable)) + 1]

\* np.random.normal(mu, sigma): mu + sigma * z, in units of 1/scale
\* (scale divides ZScale).
Normal(s, k, p, mu, sigma, scale) ==
  mu * scale + (sigma * StandardNormal(s, k, p)) \div (ZScale \div scale)

\* np.random.randint(lo, hi): an integer in lo..hi-1.
RandInt(s, k, p, lo, hi) ==
  lo + ((p * p * (s + 3) + 911 * p + 577 * k + 131 * s) % (hi - lo))

\* Faulty variant: the generator is left as it was.
SeedSkipped(r) == r

\* The generator's state after np.random.seed(42).
SeedState == [key |-> Seed, pos |-> 0]

\* np.random.seed(42)
SeedRng(r) == SeedState

(***************************************************************************)
(* Timestamps: [year, month, day, hour].  pd.date_range steps by whole     *)
(* hours; the week of the program lies inside January 2024.                *)
(***************************************************************************)
StartDate == [year |-> 2024, month |-> 1, day |-> 1, hour |-> 0]

\* Timestamp + n hours (within the month).
AddHours(ts, n) ==
  [ts EXCEPT !.hour = (ts.hour + n) % HoursPerDay,
             !.day = ts.day + ((ts.hour + n) \div HoursPerDay)]

\* Faulty variant: the range starts one step late.
DateRangeLate(start, periods) == [i \in 1..periods |-> AddHours(start, i)]

\* pd.date_range(start, periods=periods, freq='H')
DateRange(start, periods) == [i \in 1..periods |-> AddHours(start, i - 1)]

\* Series.dt.hour
HourOf(ts) == ts.hour

(***************************************************************************)
(* Lines 19-26: seed the generator, build the table.                       *)
(***************************************************************************)
\* ndarray.clip(lo, hi)
Clip(x, lo, hi) == IF x < lo THEN lo ELSE IF x > hi THEN hi ELSE x

\* Faulty variant: the clip is missing.
BasePriceUnclipped(s, r, i) ==
  RoundDiv(Normal(s, r.key, r.pos + (i - 1), PriceMu, PriceSigma, RawPriceScale),
           RawPriceScale \div CentScale)

\* np.random.normal(350, 80, 168).clip(100, 800).round(2)[i-1], in cents.
BasePrice(s, r, i) ==
  RoundDiv(Clip(Normal(s, r.key, r.pos + (i - 1), PriceMu, PriceSigma, RawPriceScale),
                ClipLo * RawPriceScale, ClipHi * RawPriceScale),
           RawPriceScale \div CentScale)

\* np.random.randint(800, 6000, 168)[i-1]
Volume(s, r, i) == RandInt(s, r.key, r.pos + Periods + (i - 1), VolumeLo, VolumeHi)

\* np.random.normal(12000, 3000, 168).round(1)[i-1], in tenths.
Load(s, r, i) ==
  RoundDiv(Normal(s, r.key, r.pos + 2 * Periods + (i - 1), LoadMu, LoadSigma, RawLoadScale),
           RawLoadScale \div LoadScale)

\* The DataFrame of line 21.  The base price is held at the resolution of the
\* final price (PriceScale) so that the column keeps one unit.
NewFrame(s, r) ==
  [columns |-> <<"timestamp", "price", "volume", "load">>,
   col |-> [timestamp |-> DateRange(StartDate, Periods),
            price |-> [i \in Rows |-> BasePrice(s, r, i) * (PriceScale \div CentScale)],
            volume |-> [i \in Rows |-> Volume(s, r, i)],
            load |-> [i \in Rows |-> Load(s, r, i)]]]

EmptyFrame == [columns |-> <<>>, col |-> [timestamp |-> <<>>]]

(***************************************************************************)
(* Line 29: the modulation.                                                *)
(***************************************************************************)
\* sin of k * 15 degrees for k in 0..6, in units of 1/SinScale.
QuarterSine == <<0, 259, 500, 707, 866, 966, 1000>>

\* sin(2 * pi * i / 24), in units of 1/SinScale: reduce the angle to one turn,
\* then to the first quadrant.
Sin24(i) ==
  LET r == i % HoursPerDay
      half == HoursPerDay \div 2
      quarter == HoursPerDay \div 4
  IN  IF r <= quarter THEN QuarterSine[r + 1]
      ELSE IF r <= half THEN QuarterSine[(half - r) + 1]
      ELSE IF r <= half + quarter THEN -QuarterSine[(r - half) + 1]
      ELSE -QuarterSine[(HoursPerDay - r) + 1]

\* Faulty variant: a weekly cycle, one turn over the 168 rows.
ModulationFactorWeekly(index) ==
  FactorScale + (((FactorScale \div 10) * Sin24(index \div 7)) \div SinScale)

\* 1 + 0.1 * sin(2 * pi * index / 24) for row label index, in 1/FactorScale.
ModulationFactor(index) ==
  FactorScale + (((FactorScale \div 10) * Sin24(index)) \div SinScale)

\* price * factor; price is a whole number of cents held at 1/PriceScale.
Modulate(price, factor) ==
  RoundDiv((price \div (PriceScale \div CentScale)) * factor,
           FactorScale \div (PriceScale \div CentScale))

\* data['price'] * (1 + 0.1 * np.sin(2 * np.pi * data.index / 24)); the index of
\* the i-th row is i - 1.
ModulatedPrice(df) ==
  [i \in 1..Len(df.col.price) |-> Modulate(df.col.price[i], ModulationFactor(i - 1))]

(***************************************************************************)
(* Lines 36-45, 51-53, 64: Series statistics.                              *)
(***************************************************************************)
Range(xs) == {xs[i] : i \in 1..Len(xs)}

\* Series.mean()
Mean(xs) == RoundDiv(Sum(xs), Len(xs))

\* Series.min(), Series.max()
Min(xs) == CHOOSE v \in Range(xs) : \A w \in Range(xs) : v <= w
Max(xs) == CHOOSE v \in Range(xs) : \A w \in Range(xs) : v >= w

\* The k-th smallest element (k = 1 the smallest).
KthSmallest(xs, k) ==
  CHOOSE v \in Range(xs) :
    /\ Cardinality({i \in 1..Len(xs) : xs[i] < v}) < k
    /\ k <= Cardinality({i \in 1..Len(xs) : xs[i] <= v})

\* Series.quantile(num/den), linear interpolation between order statistics.
Quantile(xs, num, den) ==
  LET h == (Len(xs) - 1) * num
      lo == h \div den
      frac == h % den
      a == KthSmallest(xs, lo + 1)
      b == IF frac = 0 THEN a ELSE KthSmallest(xs, lo + 2)
  IN  a + RoundDiv(frac * (b - a), den)

\* Series.median()
Median(xs) == Quantile(xs, 1, 2)

\* Deviations from the mean, in units of q (q coarsens so that squares fit).
Deviations(xs, q) == LET m == Mean(xs) IN [i \in 1..Len(xs) |-> RoundDiv(xs[i] - m, q)]

\* Sample covariance (ddof = 1) of two series of deviations.
Covariance(dx, dy) == SumDiv([i \in 1..Len(dx) |-> dx[i] * dy[i]], Len(dx) - 1)

\* Series.std(): the sample standard deviation, in the units of xs; the square
\* root is taken to a tenth of q.
Std(xs, q) ==
  LET d == Deviations(xs, q)
  IN  ISqrt(100 * Covariance(d, d)) * (q \div 10)

\* Coarsening divisors for price (1/PriceScale -> 0.1) and load (1/LoadScale -> 10).
PriceCoarse == 1000
LoadCoarse == 100

NaN == [nan |-> TRUE, val |-> 0]
Num(v) == [nan |-> FALSE, val |-> v]

\* Series.corr(): Pearson's r = cov / (std_x * std_y), in 1/CorrScale, clipped
\* to [-1, 1]; NaN when either series has no variance.
Corr(xs, qx, ys, qy) ==
  LET dx == Deviations(xs, qx)
      dy == Deviations(ys, qy)
      sx == ISqrt(100 * Covariance(dx, dx))
      sy == ISqrt(100 * Covariance(dy, dy))
  IN  IF sx = 0 \/ sy = 0 THEN NaN
      ELSE Num(Clip(RoundDiv(((Covariance(dx, dy) * 100) \div sx) * CorrScale, sy),
                    -CorrScale, CorrScale))

\* Faulty variant: >= for >.
Ge(a, b) == ~a.nan /\ ~b.nan /\ a.val >= b.val

\* a > b and a < b on floats: false when either side is NaN.
Gt(a, b) == ~a.nan /\ ~b.nan /\ a.val > b.val
Lt(a, b) == ~a.nan /\ ~b.nan /\ a.val < b.val

(***************************************************************************)
(* Lines 78-87: the hour column, groupby('hour').agg(mean).round(2),       *)
(* idxmax and idxmin.                                                      *)
(***************************************************************************)
\* data['timestamp'].dt.hour
HourColumn(df) == [i \in 1..Len(df.col.timestamp) |-> HourOf(df.col.timestamp[i])]

\* Faulty variant: the round(2) of line 83 lands on the table.
WithHourRounded(df) ==
  [columns |-> Append(df.columns, "hour"),
   col |-> [timestamp |-> df.col.timestamp,
            price |-> [i \in 1..Len(df.col.price) |->
                         RoundDiv(df.col.price[i], PriceScale \div CentScale)
                           * (PriceScale \div CentScale)],
            volume |-> df.col.volume, load |-> df.col.load,
            hour |-> HourColumn(df)]]

\* data['hour'] = ...: the column is appended.
WithHour(df) ==
  [columns |-> Append(df.columns, "hour"),
   col |-> [timestamp |-> df.col.timestamp, price |-> df.col.price,
            volume |-> df.col.volume, load |-> df.col.load,
            hour |-> HourColumn(df)]]

\* groupby('hour'): the rows of each key.
Group(df, h) == {i \in 1..Len(df.col.hour) : df.col.hour[i] = h}

\* The sum of a column over a group of rows.
SumOver(xs, g) == Sum([i \in 1..Len(xs) |-> IF i \in g THEN xs[i] ELSE 0])

\* Faulty variant: the aggregation sums instead of averaging.
GroupSum(xs, g, scale) ==
  IF scale >= CentScale
  THEN RoundDiv(SumOver(xs, g), scale \div CentScale)
  ELSE SumOver(xs, g) * (CentScale \div scale)

\* The mean of a column over a group, rounded to cents; one unit of xs is
\* 1/scale.
GroupMean(xs, g, scale) ==
  IF scale >= CentScale
  THEN RoundDiv(SumOver(xs, g), Cardinality(g) * (scale \div CentScale))
  ELSE RoundDiv(SumOver(xs, g) * (CentScale \div scale), Cardinality(g))

\* data.groupby('hour').agg({'price': 'mean', 'volume': 'mean', 'load': 'mean'}).round(2)
HourlyStats(df) ==
  [h \in Range(df.col.hour) |->
     [price |-> GroupMean(df.col.price, Group(df, h), PriceScale),
      volume |-> GroupMean(df.col.volume, Group(df, h), 1),
      load |-> GroupMean(df.col.load, Group(df, h), LoadScale)]]

\* Faulty variant: the last label of the maximum.
IdxMaxLast(hs) ==
  CHOOSE h \in DOMAIN hs :
    /\ \A g \in DOMAIN hs : hs[g].price <= hs[h].price
    /\ \A g \in DOMAIN hs : hs[g].price = hs[h].price => h >= g

\* Series.idxmax(), Series.idxmin(): the first label of the extreme value.
IdxMax(hs) ==
  CHOOSE h \in DOMAIN hs :
    /\ \A g \in DOMAIN hs : hs[g].price <= hs[h].price
    /\ \A g \in DOMAIN hs : hs[g].price = hs[h].price => h <= g

IdxMin(hs) ==
  CHOOSE h \in DOMAIN hs :
    /\ \A g \in DOMAIN hs : hs[g].price >= hs[h].price
    /\ \A g \in DOMAIN hs : hs[g].price = hs[h].price => h <= g

(***************************************************************************)
(* Timestamp order, for data['timestamp'].min() and .max().                *)
(***************************************************************************)
TsLeq(a, b) ==
  \/ a.year < b.year
  \/ a.year = b.year /\ a.month < b.month
  \/ a.year = b.year /\ a.month = b.month /\ a.day < b.day
  \/ a.year = b.year /\ a.month = b.month /\ a.day = b.day /\ a.hour <= b.hour

TsMin(xs) == CHOOSE t \in Range(xs) : \A u \in Range(xs) : TsLeq(t, u)
TsMax(xs) == CHOOSE t \in Range(xs) : \A u \in Range(xs) : TsLeq(u, t)

(***************************************************************************)
(* The output files.                                                       *)
(***************************************************************************)
CsvFile == "power_analysis_results.csv"
JsonFile == "analysis_summary.json"
ReportFile == "analysis_report.txt"
FileNames == {CsvFile, JsonFile, ReportFile}

Absent == [kind |-> "absent"]
\* What open(name, 'w') leaves when the write raises after the file was opened.
Partial == [kind |-> "partial"]

\* round(v, 2) and the .2f format, for a value held at 1/PriceScale: cents.
Round2(v) == RoundDiv(v, PriceScale \div CentScale)

\* data.to_csv(..., index=False): the columns in order, every row.
CsvContent(df) == [kind |-> "csv", columns |-> df.columns, col |-> df.col]

\* The summary dict of lines 99-110.
Summary(df, stats, corr, peak, valley, t) ==
  [kind |-> "json",
   analysis_time |-> t,
   period |-> [start |-> TsMin(df.col.timestamp), end |-> TsMax(df.col.timestamp)],
   price_statistics |-> [k \in DOMAIN stats |-> Round2(stats[k])],
   correlation |-> corr,
   total_volume |-> Sum(df.col.volume),
   peak_hour |-> peak,
   valley_hour |-> valley]

\* std/mean as the .1% format prints it: tenths of a percent.
Volatility(stats) == RoundDiv(stats.std * 10, RoundDiv(stats.mean, PriceScale \div CentScale))

\* The text report of lines 117-126.
Report(df, stats, spikes, t) ==
  [kind |-> "report",
   analysis_time |-> t,
   period |-> [start |-> TsMin(df.col.timestamp), end |-> TsMax(df.col.timestamp)],
   mean_price |-> Round2(stats.mean),
   volatility |-> Volatility(stats),
   spike_count |-> Len(spikes),
   total_volume |-> Sum(df.col.volume)]

(***************************************************************************)
(* Initial state: the process has started, nothing has run; the clock      *)
(* counts from this instant.  No output file exists; the generator is      *)
(* unseeded.                                                               *)
(***************************************************************************)
NoStats == [mean |-> 0, median |-> 0, std |-> 0, min |-> 0, max |-> 0, q1 |-> 0, q3 |-> 0]
NoFiles == [f \in FileNames |-> Absent]

Init ==
  /\ pc = "start"
  /\ now = 0
  /\ stream \in 0..MaxStream
  /\ rng \in [key : 0..MaxEntropy, pos : {0}]
  /\ data = EmptyFrame
  /\ price_stats = NoStats
  /\ price_mean = 0
  /\ price_std = 0
  /\ price_spikes = <<>>
  /\ correlation = NaN
  /\ hourly_stats = <<>>
  /\ peak_hour = -1
  /\ valley_hour = -1
  /\ console = <<>>
  /\ disk = NoFiles
  /\ writes = <<>>
  /\ failed = "none"
  /\ archive = NoFiles

Line(tag, v) == [line |-> tag, val |-> v]

(***************************************************************************)
(* Lines 14-26: banner, seed, table.                                       *)
(***************************************************************************)
GenerateData ==
  /\ pc = "start"
  /\ LET seeded == SeedRng(rng)
     IN  /\ data' = NewFrame(stream, seeded)
         /\ rng' = [seeded EXCEPT !.pos = seeded.pos + 3 * Periods]
  /\ console' = console \o <<Line("banner", 0)>>
  /\ pc' = "modulate"
  /\ UNCHANGED <<now, stream, price_stats, price_mean, price_std, price_spikes,
                 correlation, hourly_stats, peak_hour, valley_hour, disk, writes,
                 failed, archive>>

(***************************************************************************)
(* Line 29.                                                                *)
(***************************************************************************)
ModulatePrice ==
  /\ pc = "modulate"
  /\ data' = [data EXCEPT !.col.price = ModulatedPrice(data)]
  /\ pc' = "overview"
  /\ UNCHANGED <<now, stream, rng, price_stats, price_mean, price_std, price_spikes,
                 correlation, hourly_stats, peak_hour, valley_hour, console, disk,
                 writes, failed, archive>>

(***************************************************************************)
(* Lines 31-34: section 1.                                                 *)
(***************************************************************************)
PrintOverview ==
  /\ pc = "overview"
  /\ console' = console \o <<Line("period_start", TsMin(data.col.timestamp)),
                             Line("period_end", TsMax(data.col.timestamp)),
                             Line("points", Len(data.col.timestamp))>>
  /\ pc' = "price_analysis"
  /\ UNCHANGED <<now, stream, rng, data, price_stats, price_mean, price_std,
                 price_spikes, correlation, hourly_stats, peak_hour, valley_hour,
                 disk, writes, failed, archive>>

(***************************************************************************)
(* Lines 36-48: section 2.                                                 *)
(***************************************************************************)
PriceStats(prices) ==
  [mean |-> Mean(prices),
   median |-> Median(prices),
   std |-> Std(prices, PriceCoarse),
   min |-> Min(prices),
   max |-> Max(prices),
   q1 |-> Quantile(prices, 1, 4),
   q3 |-> Quantile(prices, 3, 4)]

PriceAnalysis ==
  /\ pc = "price_analysis"
  /\ price_stats' = PriceStats(data.col.price)
  /\ console' = console \o <<Line("price_stats", PriceStats(data.col.price))>>
  /\ pc' = "spikes"
  /\ UNCHANGED <<now, stream, rng, data, price_mean, price_std, price_spikes,
                 correlation, hourly_stats, peak_hour, valley_hour, disk, writes,
                 failed, archive>>

(***************************************************************************)
(* Lines 50-61: section 3.                                                 *)
(***************************************************************************)
\* Faulty variant: one standard deviation instead of two.
ThresholdOneSigma(mean, std) == mean + std

\* price_mean + 2 * price_std
Threshold(mean, std) == mean + SpikeSigmas * std

\* data[data['price'] > threshold]: the labels of the selected rows, in order.
SpikeRows(df, threshold) ==
  LET Above(i) == df.col.price[i] > threshold
  IN  SelectSeq([i \in 1..Len(df.col.price) |-> i], Above)

\* DataFrame.head(n)
HeadRows(xs, n) == SubSeq(xs, 1, IF Len(xs) < n THEN Len(xs) ELSE n)

DetectSpikes ==
  /\ pc = "spikes"
  /\ LET mean == Mean(data.col.price)
         std == Std(data.col.price, PriceCoarse)
         spikes == SpikeRows(data, Threshold(mean, std))
     IN  /\ price_mean' = mean
         /\ price_std' = std
         /\ price_spikes' = spikes
         /\ console' = console \o <<Line("threshold", Threshold(mean, std)),
                                    Line("spike_count", Len(spikes)),
                                    Line("spike_rows", HeadRows(spikes, 3))>>
  /\ pc' = "correlate"
  /\ UNCHANGED <<now, stream, rng, data, price_stats, correlation, hourly_stats,
                 peak_hour, valley_hour, disk, writes, failed, archive>>

(***************************************************************************)
(* Lines 63-65: section 4, the coefficient.                                *)
(***************************************************************************)
Correlate ==
  /\ pc = "correlate"
  /\ correlation' = Corr(data.col.price, PriceCoarse, data.col.load, LoadCoarse)
  /\ console' = console \o <<Line("correlation", correlation')>>
  /\ pc' = "interpret"
  /\ UNCHANGED <<now, stream, rng, data, price_stats, price_mean, price_std,
                 price_spikes, hourly_stats, peak_hour, valley_hour, disk, writes,
                 failed, archive>>

(***************************************************************************)
(* Lines 66-71: section 4, the interpretation.                             *)
(***************************************************************************)
Half == Num(CorrScale \div 2)
MinusHalf == Num(-(CorrScale \div 2))

\* The line the if/elif/else prints.
Interpretation(corr) ==
  IF Gt(corr, Half) THEN "strong_positive"
  ELSE IF Lt(corr, MinusHalf) THEN "strong_negative"
  ELSE "weak"

InterpretCorrelation ==
  /\ pc = "interpret"
  /\ console' = console \o <<Line(Interpretation(correlation), 0)>>
  /\ pc' = "volume"
  /\ UNCHANGED <<now, stream, rng, data, price_stats, price_mean, price_std,
                 price_spikes, correlation, hourly_stats, peak_hour, valley_hour,
                 disk, writes, failed, archive>>

(***************************************************************************)
(* Lines 73-75: section 5.                                                 *)
(***************************************************************************)
VolumeAnalysis ==
  /\ pc = "volume"
  /\ console' = console \o <<Line("total_volume", Sum(data.col.volume)),
                             Line("mean_volume", Mean(data.col.volume))>>
  /\ pc' = "hourly"
  /\ UNCHANGED <<now, stream, rng, data, price_stats, price_mean, price_std,
                 price_spikes, correlation, hourly_stats, peak_hour, valley_hour,
                 disk, writes, failed, archive>>

(***************************************************************************)
(* Lines 77-83: the hour column and the hourly aggregation.                *)
(***************************************************************************)
HourlyAggregation ==
  /\ pc = "hourly"
  /\ data' = WithHour(data)
  /\ hourly_stats' = HourlyStats(data')
  /\ pc' = "peak_valley"
  /\ UNCHANGED <<now, stream, rng, price_stats, price_mean, price_std, price_spikes,
                 correlation, peak_hour, valley_hour, console, disk, writes, failed,
                 archive>>

(***************************************************************************)
(* Lines 85-89: section 6.                                                 *)
(***************************************************************************)
PeakValley ==
  /\ pc = "peak_valley"
  /\ peak_hour' = IdxMax(hourly_stats)
  /\ valley_hour' = IdxMin(hourly_stats)
  /\ console' = console \o <<Line("peak", peak_hour'), Line("valley", valley_hour')>>
  /\ pc' = "save_csv"
  /\ UNCHANGED <<now, stream, rng, data, price_stats, price_mean, price_std,
                 price_spikes, correlation, hourly_stats, disk, writes, failed,
                 archive>>

(***************************************************************************)
(* Lines 91-128: section 7, the three files.  A write either completes or  *)
(* raises; the procedure catches nothing, so an exception ends the run.    *)
(* A write that raises leaves the file as it was (open failed) or          *)
(* truncated (the write failed after open).                                *)
(***************************************************************************)
\* datetime.now(): the clock is read where the program reads it; any amount of
\* time may have passed since it was last read.
Later(t) == t..MaxClock

\* Faulty variant: the exception is swallowed and the procedure goes on.
OnWriteErrorIgnored(next) == next

\* Where control goes when the write of a file raises.
OnWriteError(next) == "crashed"

WriteOk(name, content, next, printed) ==
  /\ disk' = [disk EXCEPT ![name] = content]
  /\ writes' = Append(writes, name)
  /\ console' = console \o <<Line(printed, 0)>>
  /\ pc' = next
  /\ UNCHANGED failed

WriteError(name, next) ==
  /\ \E left \in {disk[name], Partial} : disk' = [disk EXCEPT ![name] = left]
  /\ failed' = name
  /\ pc' = OnWriteError(next)
  /\ UNCHANGED <<writes, console>>

SaveCsv ==
  /\ pc = "save_csv"
  /\ WriteOk(CsvFile, CsvContent(data), "save_json", "saved_csv")
  /\ UNCHANGED <<now, stream, rng, data, price_stats, price_mean, price_std,
                 price_spikes, correlation, hourly_stats, peak_hour, valley_hour,
                 archive>>

SaveCsvFails ==
  /\ pc = "save_csv"
  /\ WriteError(CsvFile, "save_json")
  /\ UNCHANGED <<now, stream, rng, data, price_stats, price_mean, price_std,
                 price_spikes, correlation, hourly_stats, peak_hour, valley_hour,
                 archive>>

SaveJson ==
  /\ pc = "save_json"
  /\ now' \in Later(now)
  /\ WriteOk(JsonFile,
             Summary(data, price_stats, correlation, peak_hour, valley_hour, now'),
             "save_report", "saved_json")
  /\ UNCHANGED <<stream, rng, data, price_stats, price_mean, price_std,
                 price_spikes, correlation, hourly_stats, peak_hour, valley_hour,
                 archive>>

SaveJsonFails ==
  /\ pc = "save_json"
  /\ WriteError(JsonFile, "save_report")
  /\ UNCHANGED <<now, stream, rng, data, price_stats, price_mean, price_std,
                 price_spikes, correlation, hourly_stats, peak_hour, valley_hour,
                 archive>>

SaveReport ==
  /\ pc = "save_report"
  /\ now' \in Later(now)
  /\ WriteOk(ReportFile, Report(data, price_stats, price_spikes, now'),
             "finish", "saved_report")
  /\ UNCHANGED <<stream, rng, data, price_stats, price_mean, price_std,
                 price_spikes, correlation, hourly_stats, peak_hour, valley_hour,
                 archive>>

SaveReportFails ==
  /\ pc = "save_report"
  /\ WriteError(ReportFile, "finish")
  /\ UNCHANGED <<now, stream, rng, data, price_stats, price_mean, price_std,
                 price_spikes, correlation, hourly_stats, peak_hour, valley_hour,
                 archive>>

(***************************************************************************)
(* Lines 129-131: the completion message.                                  *)
(***************************************************************************)
Finish ==
  /\ pc = "finish"
  /\ console' = console \o <<Line("complete", Cardinality(FileNames))>>
  /\ pc' = "done"
  /\ UNCHANGED <<now, stream, rng, data, price_stats, price_mean, price_std,
                 price_spikes, correlation, hourly_stats, peak_hour, valley_hour,
                 disk, writes, failed, archive>>

(***************************************************************************)
(* The environment: the script is run again, in a new process (an         *)
(* unseeded generator) at a later time.  The files stay on disk; the       *)
(* archive keeps what the last completed run wrote, for comparison.        *)
(***************************************************************************)
RunAgain ==
  /\ pc \in {"done", "crashed"}
  /\ now < MaxClock
  /\ now' = now + 1
  /\ archive' = IF pc = "done" THEN disk ELSE archive
  /\ rng' \in [key : 0..MaxEntropy, pos : {0}]
  /\ pc' = "start"
  /\ data' = EmptyFrame
  /\ price_stats' = NoStats
  /\ price_mean' = 0
  /\ price_std' = 0
  /\ price_spikes' = <<>>
  /\ correlation' = NaN
  /\ hourly_stats' = <<>>
  /\ peak_hour' = -1
  /\ valley_hour' = -1
  /\ console' = <<>>
  /\ writes' = <<>>
  /\ failed' = "none"
  /\ UNCHANGED <<stream, disk>>

Next ==
  \/ GenerateData
  \/ ModulatePrice
  \/ PrintOverview
  \/ PriceAnalysis
  \/ DetectSpikes
  \/ Correlate
  \/ InterpretCorrelation
  \/ VolumeAnalysis
  \/ HourlyAggregation
  \/ PeakValley
  \/ SaveCsv
  \/ SaveCsvFails
  \/ SaveJson
  \/ SaveJsonFails
  \/ SaveReport
  \/ SaveReportFails
  \/ Finish
  \/ RunAgain

Spec == Init /\ [][Next]_vars

(***************************************************************************)
(* The interpretation of the coefficient as a function of its own: every   *)
(* value of the coefficient, NaN included, meets the if/elif/else.         *)
(***************************************************************************)
InitInterpret ==
  /\ pc = "interpret"
  /\ correlation \in {NaN} \cup {Num(v) : v \in -CorrScale..CorrScale}
  /\ now = 0
  /\ stream = 0
  /\ rng = SeedState
  /\ data = EmptyFrame
  /\ price_stats = NoStats
  /\ price_mean = 0
  /\ price_std = 0
  /\ price_spikes = <<>>
  /\ hourly_stats = <<>>
  /\ peak_hour = -1
  /\ valley_hour = -1
  /\ console = <<>>
  /\ disk = NoFiles
  /\ writes = <<>>
  /\ failed = "none"
  /\ archive = NoFiles

NextInterpret == InterpretCorrelation

SpecInterpret == InitInterpret /\ [][NextInterpret]_vars

(***************************************************************************)
(* Positions of the procedure, in order; a run that crashed did so in      *)
(* section 7.                                                              *)
(***************************************************************************)
Stages == <<"start", "modulate", "overview", "price_analysis", "spikes",
            "correlate", "interpret", "volume", "hourly", "peak_valley",
            "save_csv", "save_json", "save_report", "finish", "done">>

StageOf(p) ==
  LET q == IF p = "crashed" THEN "save_csv" ELSE p
  IN  CHOOSE k \in 1..Len(Stages) : Stages[k] = q

\* The run has reached statement p (it may be past it).
At(p) == StageOf(pc) >= StageOf(p)

Printed(tag) == \E k \in 1..Len(console) : console[k].line = tag
PrintedVal(tag) == console[CHOOSE k \in 1..Len(console) : console[k].line = tag].val
Written(name) == \E k \in 1..Len(writes) : writes[k] = name

(***************************************************************************)
(* C1.  The spike set.                                                     *)
(***************************************************************************)
SpikeSet == {price_spikes[k] : k \in 1..Len(price_spikes)}

\* m is the mean of xs to the nearest unit.
IsMeanOf(m, xs) == 2 * Abs(Len(xs) * m - Sum(xs)) <= Len(xs)

\* sd is the sample standard deviation (n - 1 in the denominator) of xs about
\* m, the root taken to a tenth of the coarse unit q.
IsSampleStdOf(sd, m, xs, q) ==
  LET sq == [i \in 1..Len(xs) |-> RoundDiv(xs[i] - m, q) * RoundDiv(xs[i] - m, q)]
      v == SumDiv(sq, Len(xs) - 1)
      r == sd \div (q \div 10)
  IN  /\ sd = r * (q \div 10)
      /\ r * r <= 100 * v
      /\ 100 * v < (r + 1) * (r + 1)

\* C1: once the spikes are detected, price_spikes holds exactly the rows whose
\* modulated price is strictly above mean + 2 * std, mean and sample std taken
\* over all 168 modulated prices; a row at or below the threshold is not in it;
\* and the spike count in analysis_report.txt is the size of that set.
C1_SpikeSetExact ==
  At("correlate") =>
    /\ Len(data.col.price) = Periods
    /\ IsMeanOf(price_mean, data.col.price)
    /\ IsSampleStdOf(price_std, price_mean, data.col.price, PriceCoarse)
    /\ \A i \in Rows :
         (i \in SpikeSet) <=> (data.col.price[i] > price_mean + 2 * price_std)
    /\ Len(price_spikes) = Cardinality(SpikeSet)
    /\ Written(ReportFile) => disk[ReportFile].spike_count = Cardinality(SpikeSet)

\* A completed run with spikes and non-spikes, the count in the report.
C1_Witness ==
  /\ pc = "done"
  /\ Cardinality(SpikeSet) >= 2
  /\ \E i \in Rows : i \notin SpikeSet /\ data.col.price[i] > price_mean
  /\ disk[ReportFile].spike_count = Cardinality(SpikeSet)

(***************************************************************************)
(* C2.  The week of hourly timestamps.                                     *)
(***************************************************************************)
\* Hours since the start of the month.
HoursInMonth(ts) == (ts.day - 1) * HoursPerDay + ts.hour

\* C2: the table has 168 rows; row i (from 0) is 2024-01-01 00:00 plus i hours;
\* consecutive rows are one hour apart; the first is 2024-01-01 00:00 and the
\* last 2024-01-07 23:00; every hour of the day occurs in exactly 7 rows.
C2_OneWeekHourly ==
  At("modulate") =>
    LET ts == data.col.timestamp
    IN  /\ Len(ts) = 168
        /\ Len(data.col.price) = 168
        /\ Len(data.col.volume) = 168
        /\ Len(data.col.load) = 168
        /\ \A i \in 1..Len(ts) :
             ts[i] = [year |-> 2024, month |-> 1,
                      day |-> 1 + ((i - 1) \div 24), hour |-> (i - 1) % 24]
        /\ \A i \in 1..(Len(ts) - 1) : HoursInMonth(ts[i + 1]) = HoursInMonth(ts[i]) + 1
        /\ ts[1] = [year |-> 2024, month |-> 1, day |-> 1, hour |-> 0]
        /\ ts[Len(ts)] = [year |-> 2024, month |-> 1, day |-> 7, hour |-> 23]
        /\ \A h \in 0..23 : Cardinality({i \in 1..Len(ts) : ts[i].hour = h}) = 7

\* The table exists and its overview has been printed: 168 points, ending on
\* the seventh day at 23:00.
C2_Witness ==
  /\ pc = "price_analysis"
  /\ PrintedVal("points") = 168
  /\ PrintedVal("period_end") = [year |-> 2024, month |-> 1, day |-> 7, hour |-> 23]

(***************************************************************************)
(* C3.  The hourly aggregation.                                            *)
(***************************************************************************)
\* The rows whose timestamp has hour h.
RowsOfHour(h) == {i \in 1..Len(data.col.timestamp) : data.col.timestamp[i].hour = h}

\* m (in cents) is total/n to the nearest cent, total in units of 1/scale.
IsRoundedMean(m, total, n, scale) ==
  IF scale >= 100
  THEN 2 * Abs(m * n * (scale \div 100) - total) <= n * (scale \div 100)
  ELSE 2 * Abs(m * n - total * (100 \div scale)) <= n

\* C3: hourly_stats has exactly the 24 groups 0..23; for every hour and each of
\* price, volume and load the value is the mean, rounded to 2 decimals, of the
\* column over exactly the rows of that hour; every row is in exactly one group.
C3_HourlyMeans ==
  At("peak_valley") =>
    /\ DOMAIN hourly_stats = 0..23
    /\ \A h \in 0..23 :
         LET g == RowsOfHour(h)
         IN  /\ Group(data, h) = g
             /\ IsRoundedMean(hourly_stats[h].price, SumOver(data.col.price, g),
                              Cardinality(g), PriceScale)
             /\ IsRoundedMean(hourly_stats[h].volume, SumOver(data.col.volume, g),
                              Cardinality(g), 1)
             /\ IsRoundedMean(hourly_stats[h].load, SumOver(data.col.load, g),
                              Cardinality(g), LoadScale)
    /\ UNION {Group(data, h) : h \in DOMAIN hourly_stats} = Rows
    /\ Sum([k \in 1..24 |-> Cardinality(Group(data, k - 1))]) = Periods

\* The aggregation is done and some hourly mean price needed rounding.
C3_Witness ==
  /\ pc = "save_csv"
  /\ \E h \in 0..23 :
       SumOver(data.col.price, RowsOfHour(h)) % (7 * (PriceScale \div CentScale)) # 0
  /\ \E h \in 0..23 : hourly_stats[h].volume % CentScale # 0

(***************************************************************************)
(* C4.  The three files, in order, and the completion message.             *)
(***************************************************************************)
AllFiles == <<CsvFile, JsonFile, ReportFile>>
FileIndex(name) == CHOOSE k \in 1..Len(AllFiles) : AllFiles[k] = name
KindOf(name) ==
  IF name = CsvFile THEN "csv" ELSE IF name = JsonFile THEN "json" ELSE "report"

\* C4: a run writes the three files each once, in the order csv, json, report;
\* a run that completes has written all three; the completion message is
\* printed only after all three; and when a write fails no later file is
\* written and the message is not printed.
C4_ThreeFilesInOrder ==
  /\ Len(writes) <= Len(AllFiles)
  /\ \A k \in 1..Len(writes) : writes[k] = AllFiles[k] /\ disk[writes[k]].kind = KindOf(writes[k])
  /\ pc = "done" => writes = AllFiles /\ Printed("complete")
  /\ Printed("complete") =>
       /\ writes = AllFiles
       /\ console[Len(console)].line = "complete"
       /\ console[Len(console)].val = 3
       /\ failed = "none"
  /\ (pc = "crashed") <=> (failed # "none")
  /\ failed # "none" =>
       /\ Len(writes) = FileIndex(failed) - 1
       /\ ~Printed("complete")

\* A run has completed: three files written, then the message.
C4_Witness ==
  /\ pc = "done"
  /\ writes = <<CsvFile, JsonFile, ReportFile>>
  /\ console[Len(console)].line = "complete"
  /\ console[Len(console) - 1].line = "saved_report"

(***************************************************************************)
(* C5.  Two runs.                                                          *)
(***************************************************************************)
TwoRunsDone == pc = "done" /\ archive[CsvFile].kind = "csv"

\* C5 as stated: any two completed runs leave the same three files.
C5_Original == TwoRunsDone => disk = archive

WithoutTime(content) == [content EXCEPT !.analysis_time = 0]

\* C5 amended: any two completed runs write the same csv, and the same json
\* and report except for the analysis time each records.
C5_SameUpToAnalysisTime ==
  TwoRunsDone =>
    /\ disk[CsvFile] = archive[CsvFile]
    /\ WithoutTime(disk[JsonFile]) = WithoutTime(archive[JsonFile])
    /\ WithoutTime(disk[ReportFile]) = WithoutTime(archive[ReportFile])

\* Two completed runs whose summaries record different analysis times.
C5_Witness ==
  /\ TwoRunsDone
  /\ disk[JsonFile].analysis_time # archive[JsonFile].analysis_time
  /\ disk[JsonFile].total_volume = archive[JsonFile].total_volume

(***************************************************************************)
(* C6.  The diurnal modulation.                                            *)
(***************************************************************************)
\* 1 + 0.1 * sin(2 * pi * h / 24) for the hours h = 0..23, in 1/10000.
HourFactor == <<10000, 10259, 10500, 10707, 10866, 10966,
                11000, 10966, 10866, 10707, 10500, 10259,
                10000, 9741, 9500, 9293, 9134, 9034,
                9000, 9034, 9134, 9293, 9500, 9741>>

C7_PeakValley ==
  At("save_csv") =>
    /\ peak_hour \in 0..23
    /\ valley_hour \in 0..23
    /\ \A h \in 0..23 :
         /\ hourly_stats[h].price <= hourly_stats[peak_hour].price
         /\ hourly_stats[h].price = hourly_stats[peak_hour].price => peak_hour <= h
         /\ hourly_stats[h].price >= hourly_stats[valley_hour].price
         /\ hourly_stats[h].price = hourly_stats[valley_hour].price => valley_hour <= h
    /\ PrintedVal("peak") = peak_hour
    /\ PrintedVal("valley") = valley_hour
    /\ Written(JsonFile) =>
         /\ disk[JsonFile].peak_hour = PrintedVal("peak")
         /\ disk[JsonFile].valley_hour = PrintedVal("valley")

\* A completed run in which two hours tie for the maximum and two for the minimum.
C7_Witness ==
  /\ pc = "done"
  /\ \E h \in 0..23 : h # peak_hour /\ hourly_stats[h].price = hourly_stats[peak_hour].price
  /\ \E h \in 0..23 : h # valley_hour /\ hourly_stats[h].price = hourly_stats[valley_hour].price
  /\ disk[JsonFile].peak_hour = peak_hour

(***************************************************************************)
(* C8.  The interpretation line.                                           *)
(***************************************************************************)
\* C8: for every coefficient exactly one interpretation line is printed:
\* strong positive iff it is above 0.5, strong negative iff it is below -0.5,
\* weak otherwise; 0.5, -0.5 and NaN are weak.
C8_OneInterpretation ==
  pc = "volume" =>
    /\ Len(console) = 1
    /\ console[1].line \in {"strong_positive", "strong_negative", "weak"}
    /\ console[1].line = "strong_positive" <=> (~correlation.nan /\ correlation.val > 500)
    /\ console[1].line = "strong_negative" <=> (~correlation.nan /\ correlation.val < -500)
    /\ correlation.nan => console[1].line = "weak"
    /\ (~correlation.nan /\ Abs(correlation.val) = 500) => console[1].line = "weak"

\* The coefficient is exactly 0.5 and the weak line has been printed.
C8_Witness ==
  /\ pc = "volume"
  /\ ~correlation.nan
  /\ correlation.val = 500
  /\ console = <<[line |-> "weak", val |-> 0]>>

LaterStep == pc \notin {"start", "modulate"} /\ pc' # "start"

\* The table's rows are untouched; if the table changes at all, the step is
\* the aggregation and the change is the hour column, appended.  The figures
\* computed from the table stay as computed.
FrameKept ==
  /\ data'.col.timestamp = data.col.timestamp
  /\ data'.col.price = data.col.price
  /\ data'.col.volume = data.col.volume
  /\ data'.col.load = data.col.load
  /\ data' # data =>
       /\ pc = "hourly"
       /\ data'.columns = <<"timestamp", "price", "volume", "load", "hour">>
       /\ data'.col.hour = [i \in Rows |-> data.col.timestamp[i].hour]
  /\ At("spikes") => price_stats' = price_stats
  /\ At("correlate") =>
       price_mean' = price_mean /\ price_std' = price_std /\ price_spikes' = price_spikes
  /\ At("interpret") => correlation' = correlation

\* The csv holds the table; the mean and the spikes are those of the csv;
\* the total volume is one number in the summary, the report and the console.
CsvDescribed ==
  /\ Written(CsvFile) =>
       LET csv == disk[CsvFile]
       IN  /\ csv.columns = <<"timestamp", "price", "volume", "load", "hour">>
           /\ \A c \in {"timestamp", "price", "volume", "load", "hour"} :
                Len(csv.col[c]) = 168
           /\ csv.col = data.col
           /\ IsMeanOf(price_stats.mean, csv.col.price)
           /\ price_mean = price_stats.mean
           /\ price_std = price_stats.std
           /\ SpikeSet = {i \in Rows : csv.col.price[i] > price_mean + 2 * price_std}
           /\ PrintedVal("total_volume") = Sum(csv.col.volume)
  /\ Written(JsonFile) => disk[JsonFile].total_volume = PrintedVal("total_volume")
  /\ Written(ReportFile) => disk[ReportFile].total_volume = disk[JsonFile].total_volume

\* C10: after the modulation no step changes a row's timestamp, price, volume
\* or load, nor the number of rows; the only change of the table is the hour
\* column, added before the csv is written; so the csv holds the 168 rows and
\* five columns, the statistics, spikes and correlation describe the csv's
\* values, and summary, report and console agree on the total volume.
C10_FrameAndCsv == [][(LaterStep => FrameKept) /\ CsvDescribed']_vars

\* A completed run: the csv is the table, hour column included, and the three
\* total volumes agree.
C10_Witness ==
  /\ pc = "done"
  /\ disk[CsvFile].col = data.col
  /\ disk[CsvFile].col.hour[168] = 23
  /\ disk[JsonFile].total_volume = PrintedVal("total_volume")
  /\ disk[ReportFile].total_volume = PrintedVal("total_volume")


====
